---------------------------- MODULE Spec2Model ----------------------------
(***************************************************************************)
(* State-machine model of the blog application in src/main.py: three       *)
(* tables (users, blog_posts, comments), the per-client login session, and *)
(* one action per route handler.  Every request is handled atomically      *)
(* (one synchronous handler per request, committed before the response).   *)
(* Handlers read nothing of a client but its current user, so one browser  *)
(* that registers, logs in and logs out as different users drives the      *)
(* store through every state several browsers could.                       *)
(***************************************************************************)
EXTENDS Integers, Sequences, FiniteSets, TLC

(***************************************************************************)
(* Bounds of the model.                                                    *)
(***************************************************************************)
MaxPostId == 2
MaxComments == 1

(***************************************************************************)
(* Program constants.                                                      *)
(***************************************************************************)
AdminId == 1
Rounds == 12
NULL == 0

(***************************************************************************)
(* Input alphabets.                                                        *)
(***************************************************************************)
Clients == {"c1"}
Emails == {"ann@x.org", "bob@x.org"}
Passwords == {"pw1", "pw2"}
Salts == {"s1"}
Texts == {"hi"}
PostIds == 1..MaxPostId
Days == {[year |-> 2023, month |-> 1, day |-> 31], [year |-> 2023, month |-> 2, day |-> 1]}

VARIABLES users, posts, comments, postSeq, session, last

vars == <<users, posts, comments, postSeq, session, last>>

(***************************************************************************)
(* Sequence helpers.                                                       *)
(***************************************************************************)
Range(s) == {s[i] : i \in 1..Len(s)}

Reverse(s) == [i \in 1..Len(s) |-> s[Len(s) + 1 - i]]

RemoveAt(s, k) == [i \in 1..(Len(s) - 1) |-> IF i < k THEN s[i] ELSE s[i + 1]]

(***************************************************************************)
(* date.today().strftime("%B %d, %Y")                                      *)
(***************************************************************************)
MonthName == <<"January", "February", "March", "April", "May", "June", "July",
               "August", "September", "October", "November", "December">>

Digit == <<"0", "1", "2", "3", "4", "5", "6", "7", "8", "9">>

TwoDigits(n) == Digit[(n \div 10) + 1] \o Digit[(n % 10) + 1]

strftime(d) ==
    MonthName[d.month] \o " " \o TwoDigits(d.day) \o ", "
        \o TwoDigits(d.year \div 100) \o TwoDigits(d.year % 100)

(***************************************************************************)
(* bcrypt: a salted one-way digest.  The digest is modelled as the pair of *)
(* salt and password, compared only through check_password_hash.           *)
(***************************************************************************)
Digest(salt, password) == <<"bcrypt", salt, password>>

generate_password_hash(password, salt) ==
    [rounds |-> Rounds, salt |-> salt, digest |-> Digest(salt, password)]

\* a check that accepts every password for a well-formed hash
check_password_hash_any(pw_hash, password) == pw_hash.rounds = Rounds

check_password_hash(pw_hash, password) ==
    pw_hash.digest = Digest(pw_hash.salt, password)

(***************************************************************************)
(* Queries.                                                                *)
(***************************************************************************)
UserById(id) == {u \in Range(users) : u.id = id}

UserByEmail(email) == {u \in Range(users) : u.email = email}

PostIndex(id) == {i \in 1..Len(posts) : posts[i].id = id}

PostById(id) == {p \in Range(posts) : p.id = id}

\* load_user: the User row with that id, or no user at all
load_user(user_id) == UserById(user_id)

\* current_user of a client: the id of the user its session resolves to, NULL when anonymous
current_user(c) == IF load_user(session[c]) = {} THEN NULL ELSE session[c]

is_authenticated(c) == current_user(c) # NULL

\* admin_only: the wrapped handler runs only for the user whose id is 1
admin_only(c) == current_user(c) = AdminId

\* get_all_posts: the table in scan order, reversed
get_all_posts == Reverse(posts)

(***************************************************************************)
(* Responses.                                                              *)
(***************************************************************************)
NoForm == [none |-> TRUE]

\* The last request handled and its response.  again: the request is an edit
\* submission that repeats the one handled just before it (same client, id and form).
Response(route, method, c, id, form, status, view, error) ==
    [route |-> route, method |-> method, client |-> c, post_id |-> id, form |-> form,
     status |-> status, view |-> view, error |-> error,
     again |-> (/\ route = "edit_post" /\ method = "POST"
                /\ last.route = route /\ last.method = method /\ last.client = c
                /\ last.post_id = id /\ last.form = form)]

(***************************************************************************)
(* Form inputs and their validation.  forms.py is not part of the source   *)
(* tree; the validators follow the written specification: every field is   *)
(* required, and a duplicate of a unique column is a validation error.     *)
(***************************************************************************)
RegisterForms ==
    {[email |-> "ann@x.org", password |-> "pw1", name |-> "Ann"],
     [email |-> "bob@x.org", password |-> "pw2", name |-> "Bob"],
     [email |-> "", password |-> "pw1", name |-> "Ann"]}

LoginForms == [email : Emails \cup {""}, password : Passwords]

PostForms ==
    {[title |-> "T1", subtitle |-> "S1", img_url |-> "I1", body |-> "B1"],
     [title |-> "T2", subtitle |-> "S2", img_url |-> "I2", body |-> "B2"],
     [title |-> "T1", subtitle |-> "S2", img_url |-> "I2", body |-> "B2"],
     [title |-> "", subtitle |-> "S1", img_url |-> "I1", body |-> "B1"]}

CommentForms == [text : Texts]

RegisterForm_validate(form) ==
    /\ form.email # "" /\ form.password # "" /\ form.name # ""
    /\ UserByEmail(form.email) = {}

LoginForm_validate(form) == form.email # "" /\ form.password # ""

\* self is the id of the post being edited, NULL when a post is being created
CreatePostForm_validate(form, self) ==
    /\ form.title # "" /\ form.subtitle # "" /\ form.img_url # "" /\ form.body # ""
    /\ \A p \in Range(posts) : p.title = form.title => p.id = self

\* post.html rendered for a post that may be missing
render_post(requested_post) == IF requested_post = {} THEN 500 ELSE 200

(***************************************************************************)
(* The store: unique columns are enforced at commit.                       *)
(***************************************************************************)
users_unique(rows) ==
    \A i, j \in 1..Len(rows) : rows[i].email = rows[j].email => i = j

posts_unique(rows) ==
    \A i, j \in 1..Len(rows) : rows[i].title = rows[j].title => i = j

\* UPDATE of the row at position k: the new row version keeps its place in the
\* scan order or is written at the end of the table
db_update(rows, k, row, moved) ==
    IF moved THEN Append(RemoveAt(rows, k), row) ELSE [rows EXCEPT ![k] = row]

\* DELETE of a post: the rows of its comments collection are de-associated
db_orphan(rows, id) ==
    [i \in 1..Len(rows) |->
        IF rows[i].blog_id = id THEN [rows[i] EXCEPT !.blog_id = NULL] ELSE rows[i]]

\* an edit that keeps the original author
edited_keep_author(post, form, user) ==
    [post EXCEPT !.title = form.title, !.subtitle = form.subtitle,
                 !.img_url = form.img_url, !.body = form.body]

\* an edit that appends the submitted body to the stored one
edited_append_body(post, form, user) ==
    [post EXCEPT !.title = form.title, !.subtitle = form.subtitle,
                 !.img_url = form.img_url, !.author_id = user,
                 !.body = post.body \o form.body]

\* edit_post's assignments to the post being edited
edited(post, form, user) ==
    [post EXCEPT !.title = form.title, !.subtitle = form.subtitle,
                 !.img_url = form.img_url, !.author_id = user, !.body = form.body]

Init ==
    /\ users = <<>>
    /\ posts = <<>>
    /\ comments = <<>>
    /\ postSeq = 0
    /\ session = [c \in Clients |-> NULL]
    /\ last = [route |-> "none", method |-> "GET", client |-> "c1", post_id |-> NULL,
               form |-> NoForm, status |-> 200, view |-> "none", error |-> "none",
               again |-> FALSE]

Unchanged == UNCHANGED <<users, posts, comments, postSeq, session>>

\* GET /
index(c) ==
    /\ last' = Response("get_all_posts", "GET", c, NULL, NoForm, 200, "index.html", "none")
    /\ Unchanged

\* GET /about, GET /contact
about(c) ==
    /\ last' = Response("about", "GET", c, NULL, NoForm, 200, "about.html", "none")
    /\ Unchanged

contact(c) ==
    /\ last' = Response("contact", "GET", c, NULL, NoForm, 200, "contact.html", "none")
    /\ Unchanged

\* a register handler that commits without consulting the form's validation
register_unvalidated(c, method, form, salt) ==
    IF method = "GET"
    THEN /\ last' = Response("register", method, c, NULL, NoForm, 200, "register.html", "none")
         /\ Unchanged
    ELSE LET entry == [id |-> Len(users) + 1, email |-> form.email,
                       password |-> generate_password_hash(form.password, salt),
                       name |-> form.name]
         IN  IF users_unique(Append(users, entry))
             THEN /\ users' = Append(users, entry)
                  /\ session' = [session EXCEPT ![c] = entry.id]
                  /\ last' = Response("register", method, c, NULL, form, 302,
                                      "get_all_posts", "none")
                  /\ UNCHANGED <<posts, comments, postSeq>>
             ELSE /\ last' = Response("register", method, c, NULL, form, 500,
                                      "none", "IntegrityError")
                  /\ Unchanged

\* GET/POST /register
register(c, method, form, salt) ==
    IF method = "GET"
    THEN /\ last' = Response("register", method, c, NULL, NoForm, 200, "register.html", "none")
         /\ Unchanged
    ELSE IF RegisterForm_validate(form)
         THEN LET entry == [id |-> Len(users) + 1, email |-> form.email,
                            password |-> generate_password_hash(form.password, salt),
                            name |-> form.name]
              IN  IF users_unique(Append(users, entry))
                  THEN /\ users' = Append(users, entry)
                       /\ session' = [session EXCEPT ![c] = entry.id]
                       /\ last' = Response("register", method, c, NULL, form, 302,
                                           "get_all_posts", "none")
                       /\ UNCHANGED <<posts, comments, postSeq>>
                  ELSE /\ last' = Response("register", method, c, NULL, form, 500,
                                           "none", "IntegrityError")
                       /\ Unchanged
         ELSE /\ last' = Response("register", method, c, NULL, form, 200, "register.html",
                                  IF form.email # "" /\ UserByEmail(form.email) # {}
                                  THEN "email" ELSE "required")
              /\ Unchanged

\* GET/POST /login
login(c, method, form) ==
    IF method = "GET"
    THEN /\ last' = Response("login", method, c, NULL, NoForm, 200, "login.html", "none")
         /\ Unchanged
    ELSE IF LoginForm_validate(form)
         THEN IF UserByEmail(form.email) # {}
              THEN LET entry == CHOOSE u \in UserByEmail(form.email) :
                                    \A v \in UserByEmail(form.email) : u.id <= v.id
                   IN  IF check_password_hash(entry.password, form.password)
                       THEN /\ session' = [session EXCEPT ![c] = entry.id]
                            /\ last' = Response("login", method, c, NULL, form, 302,
                                                "get_all_posts", "none")
                            /\ UNCHANGED <<users, posts, comments, postSeq>>
                       ELSE /\ last' = Response("login", method, c, NULL, form, 200,
                                                "login.html", "Invalid password.")
                            /\ Unchanged
              ELSE /\ last' = Response("login", method, c, NULL, form, 200, "login.html",
                                       "No account registered using this email")
                   /\ Unchanged
         ELSE /\ last' = Response("login", method, c, NULL, form, 200, "login.html", "required")
              /\ Unchanged

\* GET /logout
logout(c) ==
    /\ session' = [session EXCEPT ![c] = NULL]
    /\ last' = Response("logout", "GET", c, NULL, NoForm, 302, "get_all_posts", "none")
    /\ UNCHANGED <<users, posts, comments, postSeq>>

\* GET/POST /post/<id>
show_post(c, method, post_id, form) ==
    LET requested_post == PostById(post_id) IN
    IF method = "GET"
    THEN /\ last' = Response("show_post", method, c, post_id, NoForm,
                             render_post(requested_post), "post.html", "none")
         /\ Unchanged
    ELSE IF is_authenticated(c)
         THEN /\ Len(comments) < MaxComments
              /\ comments' = Append(comments,
                     [id |-> Len(comments) + 1, text |-> form.text,
                      author_id |-> current_user(c),
                      blog_id |-> IF requested_post = {} THEN NULL ELSE post_id])
              /\ last' = Response("show_post", method, c, post_id, form,
                                  render_post(requested_post), "post.html", "none")
              /\ UNCHANGED <<users, posts, postSeq, session>>
         ELSE /\ last' = Response("show_post", method, c, post_id, form,
                                  render_post(requested_post), "post.html", "none")
              /\ Unchanged

\* GET/POST /new-post
add_new_post(c, method, form, today) ==
    IF method = "POST"
    THEN IF CreatePostForm_validate(form, NULL)
         THEN IF ~is_authenticated(c)
              THEN \* the anonymous user is no mapped User: the constructor raises
                   /\ last' = Response("add_new_post", method, c, NULL, form, 500,
                                       "none", "AttributeError")
                   /\ Unchanged
              ELSE LET new_post == [id |-> postSeq + 1, author_id |-> current_user(c),
                                    title |-> form.title, subtitle |-> form.subtitle,
                                    date |-> strftime(today), body |-> form.body,
                                    img_url |-> form.img_url]
                   IN  IF posts_unique(Append(posts, new_post))
                       THEN /\ postSeq < MaxPostId
                            /\ posts' = Append(posts, new_post)
                            /\ postSeq' = postSeq + 1
                            /\ last' = Response("add_new_post", method, c, NULL, form, 302,
                                                "get_all_posts", "none")
                            /\ UNCHANGED <<users, comments, session>>
                       ELSE /\ last' = Response("add_new_post", method, c, NULL, form, 500,
                                                "none", "IntegrityError")
                            /\ Unchanged
         ELSE \* no return statement on this path: the view returns None
              /\ last' = Response("add_new_post", method, c, NULL, form, 500,
                                  "none", "TypeError")
              /\ Unchanged
    ELSE /\ last' = Response("add_new_post", method, c, NULL, NoForm, 200,
                             "make-post.html", "none")
         /\ Unchanged

\* GET/POST /edit-post/<id>
edit_post(c, method, post_id, form, moved) ==
    IF ~admin_only(c)
    THEN /\ last' = Response("edit_post", method, c, post_id,
                             IF method = "POST" THEN form ELSE NoForm, 403, "none", "Forbidden")
         /\ Unchanged
    ELSE IF PostById(post_id) = {}
         THEN /\ last' = Response("edit_post", method, c, post_id,
                                  IF method = "POST" THEN form ELSE NoForm, 500,
                                  "none", "AttributeError")
              /\ Unchanged
         ELSE LET k == CHOOSE i \in PostIndex(post_id) : TRUE
                  post == edited(posts[k], form, current_user(c))
              IN  IF method = "POST"
                  THEN IF CreatePostForm_validate(form, post_id)
                       THEN IF posts_unique(db_update(posts, k, post, moved))
                            THEN /\ posts' = db_update(posts, k, post, moved)
                                 /\ last' = Response("edit_post", method, c, post_id, form,
                                                     302, "show_post", "none")
                                 /\ UNCHANGED <<users, comments, postSeq, session>>
                            ELSE /\ last' = Response("edit_post", method, c, post_id, form,
                                                     500, "none", "IntegrityError")
                                 /\ Unchanged
                       ELSE /\ last' = Response("edit_post", method, c, post_id, form, 200,
                                                "make-post.html",
                                                IF form.title = "" THEN "required" ELSE "title")
                            /\ Unchanged
                  ELSE /\ last' = Response("edit_post", method, c, post_id, NoForm, 200,
                                           "make-post.html", "none")
                       /\ Unchanged

\* GET /delete/<id>
delete_post(c, post_id) ==
    IF ~admin_only(c)
    THEN /\ last' = Response("delete_post", "GET", c, post_id, NoForm, 403, "none", "Forbidden")
         /\ Unchanged
    ELSE IF PostById(post_id) = {}
         THEN /\ last' = Response("delete_post", "GET", c, post_id, NoForm, 500,
                                  "none", "UnmappedInstanceError")
              /\ Unchanged
         ELSE LET k == CHOOSE i \in PostIndex(post_id) : TRUE
              IN  /\ posts' = RemoveAt(posts, k)
                  /\ comments' = db_orphan(comments, post_id)
                  /\ last' = Response("delete_post", "GET", c, post_id, NoForm, 302,
                                      "get_all_posts", "none")
                  /\ UNCHANGED <<users, postSeq, session>>

\* an input the handler does not read on the path taken
Unread(S) == CHOOSE x \in S : TRUE

Next ==
    \/ \E c \in Clients : index(c)
    \/ \E c \in Clients : about(c)
    \/ \E c \in Clients : contact(c)
    \/ \E c \in Clients : register(c, "GET", Unread(RegisterForms), Unread(Salts))
    \/ \E c \in Clients, f \in RegisterForms, s \in Salts : register(c, "POST", f, s)
    \/ \E c \in Clients : login(c, "GET", Unread(LoginForms))
    \/ \E c \in Clients, f \in LoginForms : login(c, "POST", f)
    \/ \E c \in Clients : logout(c)
    \/ \E c \in Clients, id \in PostIds : show_post(c, "GET", id, Unread(CommentForms))
    \/ \E c \in Clients, id \in PostIds, f \in CommentForms : show_post(c, "POST", id, f)
    \/ \E c \in Clients : add_new_post(c, "GET", Unread(PostForms), Unread(Days))
    \/ \E c \in Clients, f \in PostForms, d \in Days : add_new_post(c, "POST", f, d)
    \/ \E c \in Clients, id \in PostIds : edit_post(c, "GET", id, Unread(PostForms), FALSE)
    \/ \E c \in Clients, id \in PostIds, f \in PostForms, mv \in BOOLEAN :
           edit_post(c, "POST", id, f, mv)
    \/ \E c \in Clients, id \in PostIds : delete_post(c, id)

Spec == Init /\ [][Next]_vars

(***************************************************************************)
(* Properties.                                                             *)
(***************************************************************************)
AdminRoutes == {"add_new_post", "edit_post", "delete_post"}

IsPost(r, route) == r.route = route /\ r.method = "POST"

\* C1: on the create, edit and delete routes every caller other than the user
\* with id 1 gets 403, and every stored Post is authored by user 1.
C1_AdminGate ==
    /\ (last.route \in AdminRoutes /\ current_user(last.client) # AdminId)
           => last.status = 403
    /\ \A p \in Range(posts) : p.author_id = AdminId

Correct(u, password) == u.password = generate_password_hash(password, u.password.salt)

\* C3: a login establishes the session of the stored user exactly when email
\* and password match; a wrong password and an unknown email give their own
\* field errors and leave the session alone; the User table never changes.
C3_LoginOutcome ==
    [][IsPost(last', "login") =>
          LET c == last'.client
              f == last'.form
              match == {u \in Range(users) : u.email = f.email /\ Correct(u, f.password)}
          IN  /\ users' = users
              /\ match # {} =>
                    /\ last'.status = 302
                    /\ session'[c] # NULL
                    /\ load_user(session'[c]) = match
                    /\ \A d \in Clients \ {c} : session'[d] = session[d]
              /\ match = {} => session' = session /\ last'.status = 200
              /\ (match = {} /\ UserByEmail(f.email) # {})
                    => last'.error = "Invalid password."
              /\ (f.email # "" /\ UserByEmail(f.email) = {})
                    => last'.error = "No account registered using this email"]_vars

C3_Witness ==
    /\ IsPost(last, "login") /\ last.status = 302
    /\ Len(users) = 2
    /\ session[last.client] = 2
    /\ \E u \in load_user(session[last.client]) : u.email = last.form.email

\* C4: the list of GET / holds exactly the stored Posts, newest first.
C4_NewestFirst ==
    /\ Len(get_all_posts) = Len(posts)
    /\ Range(get_all_posts) = Range(posts)
    /\ \A i, j \in 1..Len(get_all_posts) :
           i < j => get_all_posts[i].id > get_all_posts[j].id

\* C5: a comment submission leaves the Comment table alone when anonymous, and
\* when authenticated adds exactly one row by the current user on the Post with
\* the requested id, changing nothing else.
C5_CommentAdded ==
    [][IsPost(last', "show_post") =>
          IF ~is_authenticated(last'.client)
          THEN comments' = comments
          ELSE /\ Len(comments') = Len(comments) + 1
               /\ \A i \in 1..Len(comments) : comments'[i] = comments[i]
               /\ comments'[Len(comments')].author_id = current_user(last'.client)
               /\ comments'[Len(comments')].blog_id = last'.post_id
               /\ PostById(last'.post_id) # {}
               /\ posts' = posts /\ users' = users]_vars

\* C6: an edit submission applied a second time in a row changes nothing.
C6_EditIdempotent ==
    [][(IsPost(last, "edit_post") /\ last.status = 302 /\ IsPost(last', "edit_post")
            /\ last'.client = last.client /\ last'.post_id = last.post_id
            /\ last'.form = last.form)
          => /\ last'.status = 302
             /\ Range(posts') = Range(posts)
             /\ Len(posts') = Len(posts)
             /\ comments' = comments
             /\ users' = users]_vars

C6_Witness ==
    /\ IsPost(last, "edit_post") /\ last.status = 302 /\ last.again
    /\ \E p \in PostById(last.post_id) : p.title = last.form.title

\* C7: a create or edit submission by the admin whose title is that of another
\* stored Post re-renders the form and leaves the Post table alone; titles
\* stay unique.
C7_DuplicateTitleRejected ==
    /\ [](\A i, j \in 1..Len(posts) : posts[i].title = posts[j].title => i = j)
    /\ [][((IsPost(last', "add_new_post") \/ IsPost(last', "edit_post"))
              /\ admin_only(last'.client)
              /\ \E p \in Range(posts) : p.title = last'.form.title /\ p.id # last'.post_id)
           => /\ last'.status = 200
              /\ last'.view = "make-post.html"
              /\ posts' = posts]_vars

\* a submission with every field filled in and a title no other Post carries
ValidFields(f, id) ==
    /\ f.title # "" /\ f.subtitle # "" /\ f.img_url # "" /\ f.body # ""
    /\ \A p \in Range(posts) : p.id # id => p.title # f.title

\* C8: a valid edit submission on an existing Post overwrites title, subtitle,
\* image URL and body, sets the author to the current user, keeps id, date and
\* comments, and leaves every other Post unchanged.
C8_EditFrame ==
    [][(IsPost(last', "edit_post") /\ admin_only(last'.client)
            /\ PostById(last'.post_id) # {}
            /\ ValidFields(last'.form, last'.post_id))
          => \E old \in PostById(last'.post_id) :
                 LET f == last'.form
                     new == [id |-> old.id, date |-> old.date,
                             author_id |-> current_user(last'.client),
                             title |-> f.title, subtitle |-> f.subtitle,
                             img_url |-> f.img_url, body |-> f.body]
                 IN  /\ last'.status = 302
                     /\ Len(posts') = Len(posts)
                     /\ Range(posts') = (Range(posts) \ {old}) \cup {new}
                     /\ comments' = comments
                     /\ users' = users]_vars

C8_Witness ==
    /\ IsPost(last, "edit_post") /\ last.status = 302
    /\ Len(posts) = 2
    /\ \E cm \in Range(comments) : cm.blog_id = last.post_id
    /\ \E p, q \in Range(posts) :
           /\ p.id = last.post_id /\ q.id # p.id
           /\ p.author_id = AdminId /\ q.author_id # AdminId
           /\ p.subtitle = last.form.subtitle /\ p.date # q.date

\* C9: a delete by the admin removes exactly that Post row; every other Post,
\* every User and every Comment row keeps its field values.
C9_DeleteFrame ==
    [][(last'.route = "delete_post" /\ admin_only(last'.client)
            /\ PostById(last'.post_id) # {})
          => /\ Range(posts') = Range(posts) \ PostById(last'.post_id)
             /\ Len(posts') = Len(posts) - 1
             /\ users' = users
             /\ comments' = comments]_vars

\* C10: every Comment references an existing User and an existing Post, and
\* every Post references an existing User.
C10_References ==
    /\ \A cm \in Range(comments) :
           UserById(cm.author_id) # {} /\ PostById(cm.blog_id) # {}
    /\ \A p \in Range(posts) : UserById(p.author_id) # {}
=============================================================================
